---------------------------- MODULE Spec2Model ----------------------------
(***************************************************************************)
(* A model of the UPnP port-mapping client of src/index.js: the SSDP       *)
(* discovery promise (findGateway), the gateway-handle cache of the UPnP   *)
(* class (_findGateway, clearCache) and the public operations mapPort,     *)
(* unmapPort, getExternalIp and getMappings, each cut into steps at its    *)
(* await points.  The network (SSDP answers, the device description, the   *)
(* SOAP replies) is the environment and is chosen nondeterministically.    *)
(*                                                                         *)
(*   Spec          the client with two concurrent calls and any gateway    *)
(*   SpecGw        one call after the other against a gateway with a table *)
(*   SpecDisc      one findGateway(): socket, timer and promise            *)
(*   FairSpecDisc  SpecDisc with timers that fire                          *)
(*   SpecNorm      normalizePort applied to its inputs and to its result   *)
(*   SpecFilter    the filters at the end of getMappings                   *)
(*   SpecSearch    searchService on device trees                           *)
(*   SpecSoap      soapRequest on the replies of a gateway                 *)
(***************************************************************************)
EXTENDS Integers, Sequences, FiniteSets, TLC

VARIABLES
  gateway,        \* this._gateway of the one client instance
  call,           \* call[p]: the frame of the public call running in slot p
  sent,           \* sent[p]: action and arguments of each SOAP request call p
                  \* has put on the wire so far (observer)
  invocations,    \* number of public calls invoked so far (observer, bounded)
  sinceClear,     \* what happened since the last clearCache (observer)
  gwTable,        \* the port-mapping table of the gateway device (environment)
  gwOrigin,       \* index of the gateway's first entry, 0 or 1 (environment)
  scenario,       \* the sequential mapPort/unmapPort/getMappings run (observer)
  disc,           \* the state of one findGateway() promise, socket and timer
  eval,           \* a pure function of the program under evaluation: its
                  \* input and what it has returned so far
  stale           \* the slots whose _findGateway was between its awaits when
                  \* clearCache was last called (observer)

vars == <<gateway, call, sent, invocations,
          sinceClear, gwTable, gwOrigin, scenario, disc, eval, stale>>

clientVars == <<gateway, call, sent, invocations,
                sinceClear, stale>>

gwVars == <<gwTable, gwOrigin, scenario>>

-----------------------------------------------------------------------------
(* Bounds of the model.                                                    *)

\* calls of public methods (clearCache included) in one behaviour
MaxInvocations == 3

\* a gateway answers GetGenericPortMappingEntry successfully below this index
MaxEntries == 1

\* the largest port number given to normalizePort
MaxPort == 2

\* how many times in a row normalizePort is applied to its own result
MaxApplications == 2

\* the longest list of mappings given to the filters of getMappings
MaxMappings == 2

\* device descriptions: nesting of devices below the root device, child
\* devices of one deviceList, services of one serviceList
MaxDepth == 2

MaxChildren == 2

MaxServices == 1

-----------------------------------------------------------------------------
(* JavaScript values.                                                      *)

Undef == [t |-> "undefined"]

Null == [t |-> "null"]

Num(n) == [t |-> "number", v |-> n]

\* the number n + 0.5
NumAndHalf(n) == [t |-> "number", v |-> n, half |-> TRUE]

IsInteger(x) == x.t = "number" /\ "half" \notin DOMAIN x

\* a string that Number() reads as the number n
NumStr(n) == [t |-> "numstr", v |-> n]

\* a string that Number() reads as the number n + 0.5
NumAndHalfStr(n) == [t |-> "numstr", v |-> n, half |-> TRUE]

\* any other string
Text(s) == [t |-> "text", s |-> s]

\* a string the code searches inside, as a sequence of tokens
Chars(tokens) == [t |-> "chars", s |-> tokens]

Obj(host, port) == [t |-> "object", host |-> host, port |-> port]

\* JavaScript truthiness, as used by the || defaults
Truthy(x) ==
  CASE x.t = "undefined" -> FALSE
    [] x.t = "null" -> FALSE
    [] x.t = "number" -> x.v # 0 \/ ~IsInteger(x)
    [] x.t = "text" -> x.s # ""
    [] x.t = "chars" -> x.s # <<>>
    [] OTHER -> TRUE

OrElse(x, d) == IF Truthy(x) THEN x ELSE d

\* text as a sequence of characters, where the code searches inside it
Chars718 == <<"7", "1", "8">>

Includes(s, pat) ==
  \E i \in 1..(Len(s) - Len(pat) + 1) : SubSeq(s, i, i + Len(pat) - 1) = pat


-----------------------------------------------------------------------------
(* Errors.  A message is a sequence of tokens: the digits of an error code *)
(* or description are single characters, so that a search for "718" inside *)
(* the message is computed as String.prototype.includes computes it.       *)

Error(kind, message) == [t |-> "error", kind |-> kind, message |-> message]

TimeoutError == Error("timeout", <<"Gateway discovery timed out">>)

NoLocationError == Error("noLocation", <<"No LOCATION header found in response">>)

\* an error the socket reports (error event or send callback)
SocketError == Error("socket", <<"send ENETUNREACH">>)

\* fetch() or res.text() rejecting
FetchError == Error("fetch", <<"fetch failed">>)

NoDeviceError ==
  Error("noDevice", <<"Invalid device description: no device element found">>)

NoServiceError ==
  Error("noService", <<"UPnP service not found in device description">>)

NoControlUrlError ==
  Error("noControlUrl", <<"Control URL not found in service description">>)

SoapFaultError == Error("soapFault", <<"SOAP fault encountered">>)

UPnPError(errorCode, errorDescription) ==
  [t |-> "error", kind |-> "upnp",
   message |-> <<"UPnPError ">> \o errorCode \o <<": ">> \o errorDescription]

\* a value of a body the code dereferences although it is undefined
TypeError == Error("type", <<"Cannot read properties of undefined">>)

-----------------------------------------------------------------------------
(* Port normalization and the options of a call.                           *)

EmptyObj == Obj(Undef, Undef)

normalizePort(port) ==
  CASE port.t = "number" -> Obj(Undef, port)
    [] port.t = "numstr" -> Obj(Undef, [port EXCEPT !.t = "number"])
    [] port.t = "text" /\ port.s = "" -> Obj(Undef, Num(0))
    [] OTHER -> IF Truthy(port) THEN port ELSE EmptyObj

\* property access on a normalized endpoint: a string has no host or port
Prop(x, name) ==
  IF x.t = "object" THEN (IF name = "host" THEN x.host ELSE x.port) ELSE Undef

normalizeOpts(opts) ==
  [remote |-> normalizePort(opts.public), internal |-> normalizePort(opts.private)]

toUpperCase(s) ==
  CASE s \in {"tcp", "TCP"} -> "TCP"
    [] s \in {"udp", "UDP"} -> "UDP"
    [] OTHER -> s

toLowerCase(s) ==
  CASE s \in {"tcp", "TCP"} -> "tcp"
    [] s \in {"udp", "UDP"} -> "udp"
    [] OTHER -> s

\* the address findLocalIp() reports on the machine of the model
LocalIp == Text("192.168.1.100")

\* (options.protocol || "TCP").toUpperCase()
ProtocolOf(options) == toUpperCase(OrElse(options.protocol, Text("TCP")).s)

\* the arguments mapPort builds for AddPortMapping
AddArgs(options) ==
  LET n == normalizeOpts(options) IN
  [NewRemoteHost |-> OrElse(Prop(n.remote, "host"), Text("")),
   NewExternalPort |-> Prop(n.remote, "port"),
   NewProtocol |-> ProtocolOf(options),
   NewInternalPort |-> Prop(n.internal, "port"),
   NewInternalClient |-> OrElse(Prop(n.internal, "host"), LocalIp),
   NewEnabled |-> 1,
   NewPortMappingDescription |-> OrElse(options.description, Chars(<<"nat-upnp">>)),
   NewLeaseDuration |-> OrElse(options.ttl, Num(0))]

\* the arguments unmapPort builds for DeletePortMapping
\* a DeletePortMapping that names the port and the protocol only
DeleteArgsAnyHost(options) ==
  LET n == normalizeOpts(options) IN
  [NewRemoteHost |-> Text(""),
   NewExternalPort |-> Prop(n.remote, "port"),
   NewProtocol |-> ProtocolOf(options)]

DeleteArgs(options) ==
  LET n == normalizeOpts(options) IN
  [NewRemoteHost |-> OrElse(Prop(n.remote, "host"), Text("")),
   NewExternalPort |-> Prop(n.remote, "port"),
   NewProtocol |-> ProtocolOf(options)]

\* what a DeletePortMapping and an AddPortMapping must agree on
MappingKey(args) ==
  <<args.NewRemoteHost, args.NewExternalPort, args.NewProtocol>>

SoapRequest(handle, action, args) ==
  [action |-> action, serviceType |-> handle.serviceType,
   controlUrl |-> handle.controlUrl, args |-> args]

-----------------------------------------------------------------------------
(* The network around the client: the gateways that answer an SSDP search, *)
(* their device descriptions, and the SOAP documents they reply with.      *)

\* the LOCATION values an SSDP answer can carry
Locations == {"http://gw1", "http://gw2"}

ServiceTypeAt(location) ==
  IF location = "http://gw1" THEN "urn:schemas-upnp-org:service:WANIPConnection:1"
  ELSE "urn:schemas-upnp-org:service:WANPPPConnection:1"

\* A parsed device description, as far as _findGateway reads it: whether a
\* device element exists, the service element searchService returns (or
\* null), and the URLBase text.  A controlURL is absolute or a path.
Desc(hasDevice, service, urlBase) ==
  [hasDevice |-> hasDevice, service |-> service, URLBase |-> urlBase]

ServiceEl(serviceType, controlURL) ==
  [t |-> "service", serviceType |-> serviceType, controlURL |-> controlURL]

AbsUrl(origin, path) == [abs |-> TRUE, origin |-> origin, path |-> path]

RelUrl(path) == [abs |-> FALSE, origin |-> "", path |-> path]

EmptyUrl == [abs |-> FALSE, origin |-> "", path |-> ""]

\* the descriptions a fetch of `location` can return
DescsAt(location) ==
  { Desc(FALSE, Null, EmptyUrl),
    Desc(TRUE, Null, EmptyUrl),
    Desc(TRUE, ServiceEl(ServiceTypeAt(location), EmptyUrl), EmptyUrl),
    Desc(TRUE, ServiceEl(ServiceTypeAt(location), RelUrl("/ctl")), EmptyUrl),
    Desc(TRUE, ServiceEl(ServiceTypeAt(location), AbsUrl(location, "/ctl")), EmptyUrl) }

\* new URL(controlUrl, base).href for a path and an absolute base
ResolveUrl(url, base) == AbsUrl(base.origin, url.path)

\* _findGateway after the description arrived: the handle, or the error thrown
Resolve(desc, location) ==
  IF ~desc.hasDevice THEN NoDeviceError
  ELSE IF desc.service = Null THEN NoServiceError
  ELSE IF desc.service.controlURL.path = "" /\ ~desc.service.controlURL.abs
       THEN NoControlUrlError
  ELSE LET raw == desc.service.controlURL
           base == IF desc.URLBase # EmptyUrl THEN desc.URLBase
                   ELSE AbsUrl(location, "")
           controlUrl == IF raw.abs THEN raw ELSE ResolveUrl(raw, base)
       IN [t |-> "handle", serviceType |-> desc.service.serviceType,
           controlUrl |-> controlUrl]

\* A parsed SOAP reply, as far as soapRequest reads it: the Fault element
\* (with its UPnPError detail, if any) and the Body element.
NoFault == [present |-> FALSE, upnp |-> FALSE, errorCode |-> <<>>,
            errorDescription |-> <<>>]

GenericFault == [present |-> TRUE, upnp |-> FALSE, errorCode |-> <<>>,
                 errorDescription |-> <<>>]

UPnPFault(code, description) ==
  [present |-> TRUE, upnp |-> TRUE, errorCode |-> code,
   errorDescription |-> description]

SoapDoc(fault, body) == [fault |-> fault, body |-> body]

\* a Body element: the tag of its first child element and that child's fields
Body(tag, fields) == [t |-> "body", tag |-> tag, fields |-> fields]

\* soapRequest after the reply arrived: the Body returned, or the error thrown
soapResult(doc) ==
  IF doc.fault.present
  THEN IF doc.fault.upnp
       THEN UPnPError(doc.fault.errorCode, doc.fault.errorDescription)
       ELSE SoapFaultError
  ELSE doc.body

-----------------------------------------------------------------------------
(* Values on the wire and the records getMappings builds from them.        *)

\* the text of a decimal number, and any other text
WNum(n) == [w |-> "num", n |-> n]

WStr(x) == [w |-> "str", s |-> x]

WChars(tokens) == [w |-> "chars", s |-> tokens]

\* `${val}` of an argument value
ToWire(val) ==
  CASE val.t = "number" -> WNum(val.v)
    [] val.t = "numstr" -> WNum(val.v)
    [] val.t = "text" -> WStr(val.s)
    [] val.t = "chars" -> WChars(val.s)
    [] OTHER -> WStr("undefined")

NaN == [t |-> "NaN"]

\* Number(text)
Number(w) ==
  CASE w.w = "num" -> Num(w.n)
    [] w.w = "str" /\ w.s = "" -> Num(0)
    [] OTHER -> NaN

\* the fields of one GetGenericPortMappingEntryResponse element
Entry(host, port, protocol, internalPort, client, enabled, description, lease) ==
  [NewRemoteHost |-> host, NewExternalPort |-> port,
   NewProtocol |-> protocol, NewInternalPort |-> internalPort,
   NewInternalClient |-> client, NewEnabled |-> enabled,
   NewPortMappingDescription |-> description, NewLeaseDuration |-> lease]

\* the record getMappings pushes for one GetGenericPortMappingEntryResponse
MappingRecord(f) ==
  [public |-> [host |-> f.NewRemoteHost, port |-> Number(f.NewExternalPort)],
   private |-> [host |-> f.NewInternalClient, port |-> Number(f.NewInternalPort)],
   protocol |-> toLowerCase(f.NewProtocol),
   enabled |-> (f.NewEnabled = "1"),
   description |-> f.NewPortMappingDescription,
   ttl |-> Number(f.NewLeaseDuration)]

\* options.description: a string (searched with indexOf) or a RegExp /^.../
DescRegExp(prefix) == [t |-> "regexp", prefix |-> prefix]

IsPrefix(pre, x) == Len(pre) =< Len(x) /\ SubSeq(x, 1, Len(pre)) = pre

\* both filters, one after the other
FilterMappingsBoth(mappings, options) ==
  LET localIp == IF options.internalHost # "" THEN options.internalHost
                 ELSE LocalIp.s
      byHost == IF options.local
                THEN SelectSeq(mappings, LAMBDA m : m.private.host = localIp)
                ELSE mappings
  IN IF options.description.t = "regexp"
     THEN SelectSeq(byHost,
                    LAMBDA m : IsPrefix(options.description.prefix, m.description))
     ELSE IF options.description.t = "chars" /\ options.description.s # <<>>
     THEN SelectSeq(byHost,
                    LAMBDA m : Includes(m.description, options.description.s))
     ELSE byHost

\* the filters at the end of getMappings
FilterMappings(mappings, options) ==
  IF options.local
  THEN LET localIp == IF options.internalHost # "" THEN options.internalHost
                      ELSE LocalIp.s
       IN SelectSeq(mappings, LAMBDA m : m.private.host = localIp)
  ELSE IF options.description.t = "regexp"
  THEN SelectSeq(mappings,
                 LAMBDA m : IsPrefix(options.description.prefix, m.description))
  ELSE IF options.description.t = "chars" /\ options.description.s # <<>>
  THEN SelectSeq(mappings,
                 LAMBDA m : Includes(m.description, options.description.s))
  ELSE mappings

-----------------------------------------------------------------------------
(* The frame of a public call, and the code between two await points.      *)

Slots == {"p1", "p2"}

Pending == [t |-> "pending"]

Fulfilled(value) == [t |-> "fulfilled", value |-> value]

Rejected(error) == [t |-> "rejected", error |-> error]

NoOptions == [t |-> "none"]

IdleCall ==
  [op |-> "none", pc |-> "idle", phase |-> "none", options |-> NoOptions,
   gw |-> Null, ret |-> Null, loc |-> "", index |-> 0,
   firstErrorOnZero |-> FALSE, mappings |-> <<>>, err |-> Null,
   request |-> Null, result |-> Pending, nDisc |-> 0, received |-> <<>>,
   cold |-> FALSE]

\* a _findGateway without line 246: it discovers whatever the cache holds
findGatewayUncached(c, cache) ==
  [c EXCEPT !.pc = "discovering", !.nDisc = @ + 1]

\* _findGateway up to its first await: the cached handle, or a discovery
findGatewayEntry(c, cache) ==
  IF cache # Null THEN [c EXCEPT !.pc = "resolved", !.ret = cache]
  ELSE [c EXCEPT !.pc = "discovering", !.nDisc = @ + 1]

Settle(c, result) == [c EXCEPT !.pc = "done", !.result = result]

\* getMappings after its loop: the filters and the return
getMappingsEnd(c) == Settle(c, Fulfilled(FilterMappings(c.mappings, c.options)))

\* mapPort's test for the mapping-conflict error
IsConflict(err) == Includes(err.message, Chars718)

\* a catch block that restarts the enumeration at index 2
getMappingsCatchSkipping(c, cache) ==
  IF c.index = 0 /\ ~c.firstErrorOnZero
  THEN findGatewayEntry([c EXCEPT !.firstErrorOnZero = TRUE, !.index = 2], cache)
  ELSE getMappingsEnd(c)

\* getMappings' catch block
getMappingsCatch(c, cache) ==
  IF c.index = 0 /\ ~c.firstErrorOnZero
  THEN findGatewayEntry([c EXCEPT !.firstErrorOnZero = TRUE, !.index = 1], cache)
  ELSE getMappingsEnd(c)

\* a catch block without line 310: it retries without the unmapPort
mapPortCatchNoUnmap(c, err, cache) ==
  IF IsConflict(err)
  THEN [c EXCEPT !.phase = "add2", !.err = err, !.pc = "awaitSoap",
                 !.request = SoapRequest(c.gw, "AddPortMapping", AddArgs(c.options))]
  ELSE Settle([c EXCEPT !.err = err], Rejected(err))

\* mapPort's catch block, entered by a failed first AddPortMapping
mapPortCatch(c, err, cache) ==
  IF IsConflict(err)
  THEN findGatewayEntry([c EXCEPT !.phase = "unmap", !.err = err], cache)
  ELSE Settle([c EXCEPT !.err = err], Rejected(err))

\* an unmapPort that sends its request again when the first one failed
onThrowRetrying(c, err, cache, fromSoap) ==
  CASE c.op = "getMappings" -> getMappingsCatch(c, cache)
    [] c.op = "mapPort" /\ c.phase = "add1" /\ fromSoap -> mapPortCatch(c, err, cache)
    [] c.op = "unmapPort" /\ fromSoap /\ c.err = Null ->
         findGatewayEntry([c EXCEPT !.err = err], cache)
    [] OTHER -> Settle(c, Rejected(err))

\* a mapPort that goes on to its second AddPortMapping although the
\* DeletePortMapping of its recovery failed
onThrowIgnoringDelete(c, err, cache, fromSoap) ==
  CASE c.op = "getMappings" -> getMappingsCatch(c, cache)
    [] c.op = "mapPort" /\ c.phase = "add1" /\ fromSoap -> mapPortCatch(c, err, cache)
    [] c.op = "mapPort" /\ c.phase = "unmap" /\ fromSoap ->
         [c EXCEPT !.phase = "add2", !.pc = "awaitSoap",
                   !.request = SoapRequest(c.gw, "AddPortMapping", AddArgs(c.options))]
    [] OTHER -> Settle(c, Rejected(err))

\* An awaited promise rejected with err: what the call does with it.
\* fromSoap tells a soapRequest rejection from a _findGateway rejection.
onThrow(c, err, cache, fromSoap) ==
  CASE c.op = "getMappings" -> getMappingsCatch(c, cache)
    [] c.op = "mapPort" /\ c.phase = "add1" /\ fromSoap -> mapPortCatch(c, err, cache)
    [] OTHER -> Settle(c, Rejected(err))

\* tagName.includes("GetGenericPortMappingEntryResponse"), on the tags of
\* the model
IsEntryTag(tag) == tag = "u:GetGenericPortMappingEntryResponse"

\* a loop body that goes on to the next index without the push of line 370
getMappingsBodyDropping(c, body, cache) ==
  IF body = Undef THEN getMappingsCatch(c, cache)
  ELSE IF ~IsEntryTag(body.tag) THEN getMappingsEnd(c)
  ELSE findGatewayEntry([c EXCEPT !.index = @ + 1], cache)

getMappingsBody(c, body, cache) ==
  IF body = Undef THEN getMappingsCatch(c, cache)
  ELSE IF ~IsEntryTag(body.tag) THEN getMappingsEnd(c)
  ELSE findGatewayEntry(
         [c EXCEPT !.mappings = Append(@, MappingRecord(body.fields)),
                   !.index = @ + 1], cache)

\* getExternalIp after soapRequest returned
getExternalIpBody(c, body) ==
  IF body = Undef THEN Settle(c, Rejected(TypeError))
  ELSE IF "NewExternalIPAddress" \in DOMAIN body.fields
       THEN Settle(c, Fulfilled(body.fields.NewExternalIPAddress))
       ELSE Settle(c, Fulfilled(Null))

\* soapRequest returned body: what the call does with it
onBody(c, body, cache) ==
  CASE c.op = "getMappings" -> getMappingsBody(c, body, cache)
    [] c.op = "getExternalIp" -> getExternalIpBody(c, body)
    [] c.op = "mapPort" /\ c.phase = "unmap" ->
         [c EXCEPT !.phase = "add2", !.pc = "awaitSoap",
                   !.request = SoapRequest(c.gw, "AddPortMapping", AddArgs(c.options))]
    [] OTHER -> Settle(c, Fulfilled(body))

\* the request a call sends once _findGateway returned handle c.ret
RequestAt(c) ==
  CASE c.op = "mapPort" /\ c.phase = "add1" ->
         SoapRequest(c.ret, "AddPortMapping", AddArgs(c.options))
    [] c.op = "mapPort" /\ c.phase = "unmap" ->
         SoapRequest(c.ret, "DeletePortMapping", DeleteArgs(c.options))
    [] c.op = "unmapPort" ->
         SoapRequest(c.ret, "DeletePortMapping", DeleteArgs(c.options))
    [] c.op = "getExternalIp" ->
         SoapRequest(c.ret, "GetExternalIPAddress", <<>>)
    [] OTHER ->
         SoapRequest(c.ret, "GetGenericPortMappingEntry",
                     [NewPortMappingIndex |-> c.index])

\* what the observer keeps of a request
Sent(request) == [action |-> request.action, args |-> request.args]

-----------------------------------------------------------------------------
(* The inputs of the public calls and the replies of an arbitrary gateway. *)

MapOptions(public, private, protocol, description, ttl) ==
  [public |-> public, private |-> private, protocol |-> protocol,
   description |-> description, ttl |-> ttl]

GetOptions(local, internalHost, description) ==
  [local |-> local, internalHost |-> internalHost, description |-> description]

\* options of mapPort and unmapPort
PortOptions ==
  { MapOptions(Num(80), Num(8000), Text("tcp"), Undef, Undef),
    MapOptions(Obj(Text("wan"), NumStr(81)), NumStr(8001), Undef,
               Chars(<<"My", " ", "App">>), Num(60)) }

NoFilter == GetOptions(FALSE, "", Undef)

OptionsOf(op) ==
  IF op \in {"mapPort", "unmapPort"} THEN PortOptions
  ELSE IF op = "getMappings" THEN {NoFilter}
  ELSE {NoOptions}

Operations == {"mapPort", "unmapPort", "getExternalIp", "getMappings"}

\* Slot p1 runs any operation.  Slot p2 runs a call concurrent with it: a
\* call acts on the instance only through _findGateway, which is the same in
\* every operation, so the single-request operations stand for all of them.
OperationsOf(p) ==
  IF p = "p1" THEN Operations ELSE {"unmapPort", "getExternalIp"}

ConflictFault == UPnPFault(<<"7", "1", "8">>, <<"ConflictInMappingEntry">>)

NoSuchEntryFault == UPnPFault(<<"7", "1", "4">>, <<"NoSuchEntryInArray">>)

IndexFault == UPnPFault(<<"7", "1", "3">>, <<"SpecifiedArrayIndexInvalid">>)

\* error 501 whose description mentions port 7180
ActionFailedFault ==
  UPnPFault(<<"5", "0", "1">>, <<"port ", "7", "1", "8", "0", " busy">>)

ResponseBody(action, fields) == Body("u:" \o action \o "Response", fields)

\* the entry an arbitrary gateway reports at index i
EntryAt(i) ==
  IF i % 2 = 0
  THEN Entry("", WNum(80 + i), "TCP", WNum(8000), "192.168.1.100", "1",
             <<"nat-upnp">>, WNum(0))
  ELSE Entry("wan", WNum(80 + i), "UDP", WNum(8001), "192.168.1.7", "0",
             <<"My", " ", "App">>, WNum(60))

\* the documents an arbitrary gateway can answer a request with
AnyDocs(request) ==
  CASE request.action = "AddPortMapping" ->
         { SoapDoc(NoFault, ResponseBody(request.action, <<>>)),
           SoapDoc(ConflictFault, Undef), SoapDoc(ActionFailedFault, Undef),
           SoapDoc(GenericFault, Undef) }
    [] request.action = "DeletePortMapping" ->
         { SoapDoc(NoFault, ResponseBody(request.action, <<>>)),
           SoapDoc(NoSuchEntryFault, Undef), SoapDoc(GenericFault, Undef) }
    [] request.action = "GetExternalIPAddress" ->
         { SoapDoc(NoFault, ResponseBody(request.action,
                                         [NewExternalIPAddress |-> "1.2.3.4"])),
           SoapDoc(NoFault, ResponseBody(request.action, <<>>)),
           SoapDoc(NoFault, Undef), SoapDoc(GenericFault, Undef) }
    [] OTHER ->
         { SoapDoc(IndexFault, Undef), SoapDoc(NoFault, Body("", <<>>)),
           SoapDoc(NoFault, Undef) }
         \cup IF request.args.NewPortMappingIndex =< MaxEntries
              THEN { SoapDoc(NoFault,
                             ResponseBody(request.action,
                                          EntryAt(request.args.NewPortMappingIndex))) }
              ELSE {}

-----------------------------------------------------------------------------
(* The steps of the client.                                                *)

\* call p moves its frame to c2
Step(p, c2) == call' = [call EXCEPT ![p] = c2]

\* a public method is called: it runs up to the first await of _findGateway
Invoke(p, op, options) ==
  /\ call[p].pc = "idle"
  /\ invocations < MaxInvocations
  /\ invocations' = invocations + 1
  /\ Step(p, findGatewayEntry(
               [IdleCall EXCEPT !.op = op, !.options = options,
                                !.phase = IF op = "mapPort" THEN "add1" ELSE "main",
                                !.cold = (gateway = Null)],
               gateway))
  /\ sent' = [sent EXCEPT ![p] = <<>>]
  /\ sinceClear' = "none"
  /\ UNCHANGED <<gateway, gwVars, disc, eval, stale>>

clearCache ==
  /\ invocations < MaxInvocations
  /\ invocations' = invocations + 1
  /\ gateway' = Null
  /\ sinceClear' = "cleared"
  /\ stale' = {p \in Slots : call[p].pc \in {"discovering", "fetchingDesc"}}
  /\ UNCHANGED <<call, sent, gwVars, disc, eval>>

\* findGateway() resolved with a location: _findGateway goes on to fetchXml
DiscoveryResolved(p, location) ==
  /\ call[p].pc = "discovering"
  /\ Step(p, [call[p] EXCEPT !.pc = "fetchingDesc", !.loc = location])
  /\ UNCHANGED <<gateway, sent, invocations, sinceClear, gwVars, disc, eval, stale>>

\* findGateway() rejected: _findGateway throws into the public method
DiscoveryRejected(p, err) ==
  /\ call[p].pc = "discovering"
  /\ Step(p, onThrow([call[p] EXCEPT !.pc = "running"], err, gateway, FALSE))
  /\ stale' = stale \ {p}
  /\ UNCHANGED <<gateway, sent, invocations, sinceClear, gwVars, disc, eval>>

\* a _findGateway that caches a handle without service before it throws
DescriptionFailedCaching(p) ==
  /\ call[p].pc = "fetchingDesc"
  /\ Step(p, onThrow([call[p] EXCEPT !.pc = "running"], FetchError, gateway, FALSE))
  /\ gateway' = [t |-> "handle", serviceType |-> "", controlUrl |-> EmptyUrl]
  /\ stale' = stale \ {p}
  /\ UNCHANGED <<sent, invocations, sinceClear, gwVars, disc, eval>>

\* fetchXml(location) rejected
DescriptionFailed(p) ==
  /\ call[p].pc = "fetchingDesc"
  /\ Step(p, onThrow([call[p] EXCEPT !.pc = "running"], FetchError, gateway, FALSE))
  /\ stale' = stale \ {p}
  /\ UNCHANGED <<gateway, sent, invocations, sinceClear, gwVars, disc, eval>>

\* fetchXml(location) returned desc: _findGateway resolves it and caches the
\* handle, or throws
DescriptionFetched(p) ==
  /\ call[p].pc = "fetchingDesc"
  /\ \E desc \in DescsAt(call[p].loc) :
     LET r == Resolve(desc, call[p].loc) IN
     IF r.t = "error"
     THEN /\ Step(p, onThrow([call[p] EXCEPT !.pc = "running"], r, gateway, FALSE))
          /\ UNCHANGED <<gateway, sinceClear>>
     ELSE /\ gateway' = r
          /\ Step(p, [call[p] EXCEPT !.pc = "resolved", !.ret = r])
          /\ sinceClear' = IF sinceClear = "cleared" THEN "repopulated"
                           ELSE sinceClear
  /\ stale' = stale \ {p}
  /\ UNCHANGED <<sent, invocations, gwVars, disc, eval>>

\* the await of _findGateway() resumes: the call sends its SOAP request
Proceed(p) ==
  /\ call[p].pc = "resolved"
  /\ sent' = [sent EXCEPT ![p] = Append(@, Sent(RequestAt(call[p])))]
  /\ Step(p, [call[p] EXCEPT !.pc = "awaitSoap",
                             !.request = RequestAt(call[p]),
                             !.ret = Null,
                             !.gw = IF call[p].phase = "add1" THEN call[p].ret
                                    ELSE @])
  /\ UNCHANGED <<gateway, invocations, sinceClear, gwVars, disc, eval, stale>>

\* a client that drops the cached handle when a request fails in transport
SoapThrowsInvalidating(p) ==
  /\ call[p].pc = "awaitSoap"
  /\ Step(p, onThrow([call[p] EXCEPT !.pc = "running", !.request = Null],
                     FetchError, gateway, TRUE))
  /\ gateway' = Null
  /\ UNCHANGED <<sent, invocations, sinceClear, gwVars, disc, eval, stale>>

\* the fetch of soapRequest rejected
SoapThrows(p) ==
  /\ call[p].pc = "awaitSoap"
  /\ Step(p, onThrow([call[p] EXCEPT !.pc = "running", !.request = Null],
                     FetchError, gateway, TRUE))
  /\ UNCHANGED <<gateway, sent, invocations, sinceClear, gwVars, disc, eval, stale>>

\* doc answers a GetGenericPortMappingEntry request with an entry
IsEntryReply(request, doc) ==
  /\ request.action = "GetGenericPortMappingEntry"
  /\ ~doc.fault.present /\ doc.body # Undef
  /\ doc.body.tag = "u:GetGenericPortMappingEntryResponse"

\* the reply doc arrived: soapRequest throws the fault or returns the Body,
\* and the call goes on to its next await; table is the gateway's table then
Reply(p, doc, table) ==
  /\ call[p].pc = "awaitSoap"
  /\ LET r == soapResult(doc)
         c == [call[p] EXCEPT !.pc = "running", !.request = Null,
                              !.received = IF IsEntryReply(call[p].request, doc)
                                           THEN Append(@, doc.body.fields)
                                           ELSE @]
         c2 == IF r.t = "error" THEN onThrow(c, r, gateway, TRUE)
               ELSE onBody(c, r, gateway)
     IN /\ Step(p, c2)
        /\ sent' = IF c2.request # Null
                   THEN [sent EXCEPT ![p] = Append(@, Sent(c2.request))]
                   ELSE sent
  /\ gwTable' = table
  /\ UNCHANGED <<gateway, invocations, sinceClear, gwOrigin, scenario, disc, eval, stale>>

\* an arbitrary gateway answers
SoapReplies(p) ==
  /\ call[p].pc = "awaitSoap"
  /\ \E doc \in AnyDocs(call[p].request) : Reply(p, doc, gwTable)

\* the caller takes the settled result; the slot is free for another call
Return(p) ==
  /\ call[p].pc = "done"
  /\ call' = [call EXCEPT ![p] = IdleCall]
  /\ sent' = [sent EXCEPT ![p] = <<>>]
  /\ UNCHANGED <<gateway, invocations, sinceClear, gwVars, disc, eval, stale>>

DiscoveryErrors == {TimeoutError, NoLocationError, SocketError}

ClientInit ==
  /\ gateway = Null
  /\ call = [p \in Slots |-> IdleCall]
  /\ sent = [p \in Slots |-> <<>>]
  /\ invocations = 0
  /\ sinceClear = "none"
  /\ stale = {}

Init ==
  /\ ClientInit
  /\ gwTable = <<>>
  /\ gwOrigin = 0
  /\ scenario = <<>>
  /\ disc = Null
  /\ eval = Null

Next ==
  \/ \E p \in Slots : \E op \in OperationsOf(p) : \E o \in OptionsOf(op) :
       Invoke(p, op, o)
  \/ clearCache
  \/ \E p \in Slots, l \in Locations : DiscoveryResolved(p, l)
  \/ \E p \in Slots, e \in DiscoveryErrors : DiscoveryRejected(p, e)
  \/ \E p \in Slots : DescriptionFailed(p)
  \/ \E p \in Slots : DescriptionFetched(p)
  \/ \E p \in Slots : Proceed(p)
  \/ \E p \in Slots : SoapThrows(p)
  \/ \E p \in Slots : SoapReplies(p)
  \/ \E p \in Slots : Return(p)

Spec == Init /\ [][Next]_vars

-----------------------------------------------------------------------------
(* A gateway that keeps a table of port mappings keyed by remote host,     *)
(* external port and protocol, and one client calling it, one call after   *)
(* the other.                                                              *)

KeyOfArgs(args) ==
  <<ToWire(args.NewRemoteHost).s, ToWire(args.NewExternalPort), args.NewProtocol>>

KeyOfEntry(e) == <<e.NewRemoteHost, e.NewExternalPort, e.NewProtocol>>

\* the entry the gateway stores for an AddPortMapping
StoreEntry(args) ==
  Entry(ToWire(args.NewRemoteHost).s, ToWire(args.NewExternalPort),
        args.NewProtocol, ToWire(args.NewInternalPort),
        ToWire(args.NewInternalClient).s, "1",
        ToWire(args.NewPortMappingDescription).s, ToWire(args.NewLeaseDuration))

\* the positions of the table that hold key
Holding(table, key) == {i \in 1..Len(table) : KeyOfEntry(table[i]) = key}

Without(table, i) == SubSeq(table, 1, i - 1) \o SubSeq(table, i + 1, Len(table))

Answer(doc, table) == [doc |-> doc, table |-> table]

\* AddPortMapping: a new key is appended, a key held for the same internal
\* client is overwritten, a key held for another client is a conflict
GatewayAdd(request, table) ==
  LET e == StoreEntry(request.args)
      at == Holding(table, KeyOfArgs(request.args))
      ok == SoapDoc(NoFault, ResponseBody(request.action, <<>>))
  IN IF at = {} THEN Answer(ok, Append(table, e))
     ELSE LET i == CHOOSE j \in at : TRUE IN
          IF table[i].NewInternalClient = e.NewInternalClient
          THEN Answer(ok, [table EXCEPT ![i] = e])
          ELSE Answer(SoapDoc(ConflictFault, Undef), table)

GatewayDelete(request, table) ==
  LET at == Holding(table, KeyOfArgs(request.args)) IN
  IF at = {} THEN Answer(SoapDoc(NoSuchEntryFault, Undef), table)
  ELSE Answer(SoapDoc(NoFault, ResponseBody(request.action, <<>>)),
              Without(table, CHOOSE j \in at : TRUE))

\* GetGenericPortMappingEntry of a gateway that numbers its entries from origin
GatewayEntry(request, table, origin) ==
  LET i == request.args.NewPortMappingIndex - origin + 1 IN
  IF i \in 1..Len(table)
  THEN Answer(SoapDoc(NoFault, ResponseBody(request.action, table[i])), table)
  ELSE Answer(SoapDoc(IndexFault, Undef), table)

GatewayAnswer(request, table, origin) ==
  CASE request.action = "AddPortMapping" -> GatewayAdd(request, table)
    [] request.action = "DeletePortMapping" -> GatewayDelete(request, table)
    [] request.action = "GetGenericPortMappingEntry" ->
         GatewayEntry(request, table, origin)
    [] OTHER ->
         Answer(SoapDoc(NoFault, ResponseBody(request.action,
                                              [NewExternalIPAddress |-> "1.2.3.4"])),
                table)

\* mappings other clients made: next to the keys this client uses, and one
\* on a key this client uses, held for another machine
UdpNeighbour ==
  Entry("", WNum(80), "UDP", WNum(8000), "192.168.1.100", "1", <<"nat-upnp">>, WNum(0))

HostNeighbour ==
  Entry("", WNum(81), "TCP", WNum(8001), "192.168.1.7", "1", <<"My", " ", "App">>, WNum(60))

Squatter ==
  Entry("", WNum(80), "TCP", WNum(9000), "192.168.1.7", "1", <<"other">>, WNum(0))

Tables ==
  { <<>>, <<UdpNeighbour>>, <<HostNeighbour, UdpNeighbour>>, <<Squatter, HostNeighbour>> }

Origins == {0, 1}

\* mapPort's options, and the same public endpoints written another way
GwOptionsOf(op) ==
  IF op = "unmapPort"
  THEN PortOptions \cup {MapOptions(NumStr(80), Undef, Text("TCP"), Undef, Undef)}
  ELSE OptionsOf(op)

\* the call that has just returned, as the caller saw it
Outcome(c) == [op |-> c.op, options |-> c.options, ok |-> c.result.t = "fulfilled"]

\* the last two calls that returned
Remember(scn, c) ==
  IF Len(scn) < 2 THEN Append(scn, Outcome(c)) ELSE <<scn[2], Outcome(c)>>

GatewayReplies(p) ==
  /\ call[p].pc = "awaitSoap"
  /\ LET a == GatewayAnswer(call[p].request, gwTable, gwOrigin)
     IN Reply(p, a.doc, a.table)

GwReturn(p) ==
  /\ call[p].pc = "done"
  /\ call' = [call EXCEPT ![p] = IdleCall]
  /\ sent' = [sent EXCEPT ![p] = <<>>]
  /\ scenario' = Remember(scenario, call[p])
  /\ UNCHANGED <<gateway, invocations, sinceClear, gwTable, gwOrigin, disc, eval, stale>>

InitGw ==
  /\ ClientInit
  /\ gwTable \in Tables
  /\ gwOrigin \in Origins
  /\ scenario = <<>>
  /\ disc = Null
  /\ eval = Null

NextGw ==
  \/ \E op \in Operations : \E o \in GwOptionsOf(op) : Invoke("p1", op, o)
  \/ \E l \in Locations : DiscoveryResolved("p1", l)
  \/ \E e \in DiscoveryErrors : DiscoveryRejected("p1", e)
  \/ DescriptionFailed("p1")
  \/ DescriptionFetched("p1")
  \/ Proceed("p1")
  \/ GatewayReplies("p1")
  \/ GwReturn("p1")

SpecGw == InitGw /\ [][NextGw]_vars

-----------------------------------------------------------------------------
(* What a step did, read off the frames before and after it.               *)

\* call p started a findGateway() in this step
StartsDiscovery(p) == call'[p].nDisc = call[p].nDisc + 1

\* call p put a SOAP request on the wire in this step
Sends(p) == call'[p].request # Null /\ call'[p].request # call[p].request

\* a public method was called in slot p in this step
Invoked(p) == call[p].pc = "idle" /\ call'[p].pc # "idle"

\* clearCache was called in this step: a call of a public method that
\* starts no frame
ClearCacheCalled ==
  /\ invocations' = invocations + 1
  /\ \A p \in Slots : ~Invoked(p)

UsesHandle(request, handle) ==
  /\ request.serviceType = handle.serviceType
  /\ request.controlUrl = handle.controlUrl

\* err is the error soapRequest throws for a UPnPError with this errorCode
HasErrorCode(err, code) ==
  /\ err.kind = "upnp"
  /\ Len(err.message) >= Len(code) + 2
  /\ SubSeq(err.message, 2, Len(code) + 1) = code
  /\ err.message[Len(code) + 2] = ": "

-----------------------------------------------------------------------------
(* C1, as stated: while a handle is cached, no step other than clearCache  *)
(* starts a discovery, and every SOAP request put on the wire carries the  *)
(* serviceType and controlUrl of the cached handle.                        *)
C1_AsStated ==
  [][ (gateway # Null /\ gateway' # Null) =>
        \A p \in Slots :
          /\ ~StartsDiscovery(p)
          /\ Sends(p) => UsesHandle(call'[p].request, gateway) ]_vars

(* C1, amended: while a handle is cached no call starts a discovery; the   *)
(* handle _findGateway returns to a call is the handle cached at that      *)
(* moment; every SOAP request of the call carries the serviceType and      *)
(* controlUrl of the handle returned to it (mapPort's retry: the one       *)
(* returned before its first AddPortMapping); and a step that ends a SOAP  *)
(* request, failed or not, leaves the cache as it is.                      *)
C1_CachedHandleReused ==
  [][ \A p \in Slots :
        /\ gateway # Null => ~StartsDiscovery(p)
        /\ (call'[p].pc = "resolved" /\ call[p].pc # "resolved")
             => call'[p].ret = gateway' /\ gateway' # Null
        /\ (Sends(p) /\ call[p].pc = "resolved")
             => UsesHandle(call'[p].request, call[p].ret)
        /\ (Sends(p) /\ call[p].pc = "awaitSoap")
             => UsesHandle(call'[p].request, call[p].gw)
        /\ (call[p].phase = "add1" /\ call'[p].pc = "awaitSoap"
              /\ call[p].pc = "resolved")
             => call'[p].gw = call[p].ret
        /\ (call[p].pc = "awaitSoap" /\ call'[p] # call[p])
             => gateway' = gateway ]_vars

\* a call that met a failed SOAP request goes on with the cached handle,
\* without a discovery of its own
C1_Witness ==
  \E p \in Slots :
    /\ call[p].op = "getMappings" /\ call[p].firstErrorOnZero
    /\ call[p].pc = "awaitSoap" /\ call[p].nDisc = 0
    /\ Len(sent[p]) = 2
    /\ gateway # Null /\ UsesHandle(call[p].request, gateway)

-----------------------------------------------------------------------------
(* C2, as stated: once the cache field holds a handle, only clearCache     *)
(* changes the field.                                                      *)
C2_AsStated ==
  [][ (gateway # Null /\ gateway' # gateway) => ClearCacheCalled ]_vars

\* call p's own discovery completed in this step and stored its handle
StoresOwnHandle(p) ==
  /\ call[p].pc = "fetchingDesc" /\ call'[p].pc = "resolved"
  /\ call'[p].ret # Null /\ gateway' = call'[p].ret

(* C2, amended: once the cache field holds a handle, only clearCache sets  *)
(* it to absent, and the only other step that changes it is the completion *)
(* of a discovery that a concurrent call had in flight, which stores that  *)
(* call's own handle; no step ending a SOAP request or a failed discovery, *)
(* and no call that found the handle cached, changes the field.            *)
C2_OnlyClearOrOwnDiscovery ==
  [][ (gateway # Null /\ gateway' # gateway) =>
        \/ ClearCacheCalled
        \/ gateway' # Null /\ \E p \in Slots : StoresOwnHandle(p) ]_vars

\* a SOAP request failed on a cached handle and the handle is still cached
C2_Witness ==
  \E p \in Slots :
    /\ call[p].pc = "done" /\ call[p].result = Rejected(FetchError)
    /\ call[p].nDisc = 0 /\ Len(sent[p]) = 1
    /\ gateway # Null

-----------------------------------------------------------------------------
(* C3, as stated: clearCache sets the cache to absent and changes nothing  *)
(* else of the client, and the first public operation invoked after a      *)
(* clearCache starts an SSDP discovery.                                    *)
C3_AsStated ==
  [][ /\ ClearCacheCalled => (gateway' = Null /\ call' = call /\ sent' = sent)
      /\ \A p \in Slots :
           (sinceClear # "none" /\ Invoked(p)) => StartsDiscovery(p) ]_vars

-----------------------------------------------------------------------------
AddResponse == ResponseBody("AddPortMapping", <<>>)

(* C4: a mapPort whose first AddPortMapping failed with UPnP error 718 and *)
(* whose retry succeeded is fulfilled with the retry's response, and has   *)
(* sent exactly AddPortMapping, DeletePortMapping, AddPortMapping: the     *)
(* DeletePortMapping for the remote host, external port and protocol of    *)
(* the first request, the second AddPortMapping with the same arguments.   *)
C4_ConflictRetry ==
  \A p \in Slots :
    ( /\ call[p].op = "mapPort" /\ call[p].pc = "done"
      /\ call[p].err # Null /\ HasErrorCode(call[p].err, Chars718)
      /\ call[p].phase = "add2" /\ call[p].result.t = "fulfilled" )
    => /\ call[p].result = Fulfilled(AddResponse)
       /\ Len(sent[p]) = 3
       /\ sent[p][1].action = "AddPortMapping"
       /\ sent[p][2].action = "DeletePortMapping"
       /\ sent[p][3] = sent[p][1]
       /\ DOMAIN sent[p][2].args = {"NewRemoteHost", "NewExternalPort", "NewProtocol"}
       /\ MappingKey(sent[p][2].args) = MappingKey(sent[p][1].args)
       /\ sent[p][1].args = AddArgs(call[p].options)

C4_Witness ==
  \E p \in Slots :
    /\ call[p].op = "mapPort" /\ call[p].pc = "done"
    /\ call[p].err # Null /\ HasErrorCode(call[p].err, Chars718)
    /\ call[p].phase = "add2" /\ call[p].result = Fulfilled(AddResponse)

-----------------------------------------------------------------------------
(* C5, as stated: a mapPort whose first AddPortMapping failed with any     *)
(* failure other than a UPnP fault with errorCode 718 has sent that one    *)
(* request only and is rejected with that same failure.                    *)
C5_AsStated ==
  \A p \in Slots :
    ( /\ call[p].op = "mapPort"
      /\ call[p].err # Null /\ ~HasErrorCode(call[p].err, Chars718) )
    => /\ Len(sent[p]) = 1
       /\ call[p].pc = "done"
       /\ call[p].result = Rejected(call[p].err)

-----------------------------------------------------------------------------
\* the errors _findGateway throws after findGateway resolved
ResolutionErrors == {FetchError, NoDeviceError, NoServiceError, NoControlUrlError}

\* the first discovery of call p failed in this step with error e
FirstDiscoveryFails(p, e) ==
  /\ call[p].nDisc = 1 /\ sent[p] = <<>> /\ ~call[p].firstErrorOnZero
  /\ \/ DiscoveryRejected(p, e)
     \/ call[p].pc = "fetchingDesc" /\ e = FetchError /\ DescriptionFailed(p)
     \/ /\ call[p].pc = "fetchingDesc" /\ DescriptionFetched(p)
        /\ \E d \in DescsAt(call[p].loc) : Resolve(d, call[p].loc) = e
        /\ call'[p] = onThrow([call[p] EXCEPT !.pc = "running"], e, gateway, FALSE)

(* C6, as stated: when the discovery or the resolution of a call made with *)
(* no cached handle fails, the call is rejected with exactly that error    *)
(* and has sent no SOAP request.                                           *)
C6_AsStated ==
  [][ \A p \in Slots : \A e \in DiscoveryErrors \cup ResolutionErrors :
        FirstDiscoveryFails(p, e) =>
          /\ call'[p].pc = "done"
          /\ call'[p].result = Rejected(e)
          /\ sent'[p] = <<>> ]_vars

-----------------------------------------------------------------------------
(* findGateway: one SSDP discovery, its socket, its timer and its promise. *)
(* A datagram is its text, cut into tokens.                                *)

DEFAULT_TIMEOUT == 3000

\* the milliseconds between two instants the model tells apart
TickMs == 1000

\* discoveries started in one behaviour
MaxDiscoveries == 2

Timeouts == {TickMs, DEFAULT_TIMEOUT}

CRLF == "\r\n"

SP == " "

\* the tokens \s matches
IsSpace(tok) == tok \in {SP, CRLF}

\* the tokens /LOCATION:/i matches
IsLocationTag(tok) == tok \in {"LOCATION:", "Location:", "location:"}

RECURSIVE SkipSpaces(_, _)
\* \s*, greedy: the first position from i on that holds no space
SkipSpaces(text, i) ==
  IF i =< Len(text) /\ IsSpace(text[i]) THEN SkipSpaces(text, i + 1) ELSE i

RECURSIVE RestOfLine(_, _)
\* (.*): the tokens from i up to the line terminator
RestOfLine(text, i) ==
  IF i > Len(text) \/ text[i] = CRLF THEN <<>>
  ELSE <<text[i]>> \o RestOfLine(text, i + 1)

RECURSIVE trim(_)
\* String.prototype.trim on what (.*) captured: leading space is never there
trim(s) ==
  IF s # <<>> /\ IsSpace(s[Len(s)]) THEN trim(SubSeq(s, 1, Len(s) - 1)) ELSE s

\* data.toString().match(/LOCATION:\s*(.*)/i): group 1 of the leftmost
\* match, or Null
MatchLocation(text) ==
  LET hits == {i \in 1..Len(text) : IsLocationTag(text[i])} IN
  IF hits = {} THEN Null
  ELSE LET i == CHOOSE h \in hits : \A k \in hits : h =< k
       IN Chars(RestOfLine(text, SkipSpaces(text, i + 1)))

\* what the message handler settles the promise with
messageResult(data) ==
  LET match == MatchLocation(data) IN
  IF match # Null /\ Truthy(match)
  THEN Fulfilled([location |-> trim(match.s)])
  ELSE Rejected(NoLocationError)

StatusLine == <<"HTTP/1.1 200 OK", CRLF>>

StLine == <<"ST:", SP, "urn:igd", CRLF>>

\* the datagrams a host on the network can answer the M-SEARCH with
Datagrams ==
  { StatusLine \o <<"LOCATION:", SP, "http://gw1/desc.xml", CRLF>> \o StLine \o <<CRLF>>,
    StatusLine \o StLine \o <<"location:", "http://gw2/desc.xml", SP, CRLF, CRLF>>,
    StatusLine \o StLine \o <<CRLF>>,
    StatusLine \o <<"LOCATION:", CRLF, CRLF>>,
    StatusLine \o <<"LOCATION:", CRLF>> \o StLine \o <<CRLF>>,
    StatusLine \o <<"X-", "LOCATION:", SP, "http://elsewhere/", CRLF>> \o StLine \o <<CRLF>> }

NoDatagram == <<>>

\* the discovery a call of findGateway(timeout) starts: socket created,
\* timer armed, handlers registered, M-SEARCH handed to send
NewDiscovery(n, timeout) ==
  [t |-> "discovery", n |-> n, timeout |-> timeout, elapsed |-> 0,
   timer |-> "armed", sock |-> "open", closeCalls |-> 0, sendCb |-> "pending",
   outcome |-> Pending, first |-> NoDatagram, threw |-> FALSE]

clearTimeout(d) == IF d.timer = "armed" THEN [d EXCEPT !.timer = "cleared"] ELSE d

\* resolve or reject: only the first call settles the promise
settle(d, result) == IF d.outcome = Pending THEN [d EXCEPT !.outcome = result] ELSE d

\* sock.close(); resolve or reject.  On a socket that is closed already
\* close throws, and the handler ends there.
closeAndSettle(d, result) ==
  IF d.sock = "closed"
  THEN [d EXCEPT !.closeCalls = @ + 1, !.threw = TRUE]
  ELSE settle([d EXCEPT !.closeCalls = @ + 1, !.sock = "closed"], result)

Discovering == disc # Null

\* the timeout has elapsed and the timer callback has not run yet
TimerDue == disc.timer = "armed" /\ disc.elapsed >= disc.timeout

\* the promise is settled and no callback of the call is outstanding
DiscoveryOver ==
  /\ Discovering
  /\ disc.outcome # Pending /\ disc.sendCb = "done" /\ disc.timer # "armed"

findGateway(timeout) ==
  /\ IF Discovering THEN DiscoveryOver /\ disc.n < MaxDiscoveries ELSE TRUE
  /\ disc' = NewDiscovery(IF Discovering THEN disc.n + 1 ELSE 1, timeout)
  /\ UNCHANGED <<clientVars, gwVars, eval>>

\* time passes; a timer that is due runs before anything else does
Tick ==
  /\ Discovering /\ ~TimerDue
  /\ disc.elapsed =< disc.timeout
  /\ disc' = [disc EXCEPT !.elapsed = @ + TickMs]
  /\ UNCHANGED <<clientVars, gwVars, eval>>

\* the setTimeout callback
onTimeout ==
  /\ Discovering /\ TimerDue
  /\ disc' = closeAndSettle([disc EXCEPT !.timer = "fired"], Rejected(TimeoutError))
  /\ UNCHANGED <<clientVars, gwVars, eval>>

\* the "error" handler; the socket emits nothing once closed
onError ==
  /\ Discovering /\ ~TimerDue /\ disc.sock = "open"
  /\ disc' = closeAndSettle(clearTimeout(disc), Rejected(SocketError))
  /\ UNCHANGED <<clientVars, gwVars, eval>>

\* the "message" handler
onMessage(data) ==
  /\ Discovering /\ ~TimerDue /\ disc.sock = "open"
  /\ disc' = closeAndSettle(
               clearTimeout([disc EXCEPT !.first = IF @ = NoDatagram THEN data ELSE @]),
               messageResult(data))
  /\ UNCHANGED <<clientVars, gwVars, eval>>

\* the callback of sock.send, called once: with no error when the datagram
\* went out, with an error when it did not, which includes a send still
\* queued when the socket is closed
onSend(err) ==
  /\ Discovering /\ ~TimerDue /\ disc.sendCb = "pending"
  /\ disc' = IF err # Null
             THEN closeAndSettle(clearTimeout([disc EXCEPT !.sendCb = "done"]),
                                 Rejected(err))
             ELSE [disc EXCEPT !.sendCb = "done"]
  /\ UNCHANGED <<clientVars, gwVars, eval>>

NextDisc ==
  \/ \E timeout \in Timeouts : findGateway(timeout)
  \/ Tick
  \/ onTimeout
  \/ onError
  \/ \E data \in Datagrams : onMessage(data)
  \/ \E err \in {Null, SocketError} : onSend(err)

SpecDisc == Init /\ [][NextDisc]_vars

\* the event loop goes on, and runs the callback of a timer that is due
FairSpecDisc == SpecDisc /\ WF_vars(Tick) /\ WF_vars(onTimeout)

-----------------------------------------------------------------------------
(* C7, as stated: when a discovery is over, its promise settled and all    *)
(* its callbacks run, sock.close() has been called exactly once.           *)
C7_AsStated == DiscoveryOver => disc.closeCalls = 1

-----------------------------------------------------------------------------
\* the positions where a header line of the datagram starts
LineStarts(text) == {i \in 2..Len(text) : text[i - 1] = CRLF}

\* the value of the datagram's LOCATION header, <<>> when it has none or an
\* empty one
LocationHeader(text) ==
  LET lines == {i \in LineStarts(text) : IsLocationTag(text[i])} IN
  IF lines = {} THEN <<>>
  ELSE LET i == CHOOSE l \in lines : \A k \in lines : l =< k
       IN trim(RestOfLine(text, IF i < Len(text) /\ text[i + 1] = SP
                                 THEN i + 2 ELSE i + 1))

\* a discovery always settles
C8_Settles ==
  (Discovering /\ disc.outcome = Pending) ~> (Discovering /\ disc.outcome # Pending)

\* a discovery whose timeout elapsed with nothing received and nothing
\* failed is rejected with the timeout error, its socket closed
C8_TimesOut ==
  (Discovering /\ TimerDue /\ disc.outcome = Pending)
    ~> ( /\ Discovering /\ disc.outcome = Rejected(TimeoutError)
         /\ disc.sock = "closed" /\ disc.timer = "fired" )

\* a discovery that received a datagram has its timer cancelled and its
\* outcome from that datagram
C8_FirstDatagram ==
  (Discovering /\ disc.first # NoDatagram) =>
    /\ disc.timer = "cleared" /\ disc.sock = "closed"
    /\ disc.outcome = IF LocationHeader(disc.first) # <<>>
                      THEN Fulfilled([location |-> LocationHeader(disc.first)])
                      ELSE Rejected(NoLocationError)

(* C8, as stated: a discovery always settles; when the timeout elapses     *)
(* with no datagram and no error before it, the discovery fails with the   *)
(* timeout error and its socket is closed; when a datagram arrives first,  *)
(* the timer is cancelled and the outcome is the location of the           *)
(* datagram's LOCATION header, or the no-location error when it has none,  *)
(* whatever happens later.                                                 *)
C8_AsStated == C8_Settles /\ C8_TimesOut /\ []C8_FirstDatagram

-----------------------------------------------------------------------------
\* the public endpoint and the protocol a caller names with its options
PublicOf(options) ==
  LET x == options.public IN
  [host |-> IF x.t = "object" /\ Truthy(x.host) THEN x.host.s ELSE "",
   port |-> IF x.t = "object" THEN x.port.v ELSE x.v,
   protocol |-> IF options.protocol.t = "text"
                THEN toLowerCase(options.protocol.s) ELSE "tcp"]

\* record r of getMappings is a mapping of that endpoint and protocol
IsMappingOf(r, pub) ==
  /\ r.public.host = pub.host
  /\ r.public.port = Num(pub.port)
  /\ r.protocol = pub.protocol

\* the two calls before the running one: a mapPort that succeeded, then an
\* unmapPort of the same public endpoint and protocol that succeeded
MappedThenUnmapped ==
  /\ Len(scenario) = 2
  /\ scenario[1].op = "mapPort" /\ scenario[1].ok
  /\ scenario[2].op = "unmapPort" /\ scenario[2].ok
  /\ PublicOf(scenario[1].options) = PublicOf(scenario[2].options)

(* C9: against a gateway that keys its mappings by remote host, external   *)
(* port and protocol, a getMappings called right after a successful        *)
(* mapPort and a successful unmapPort of the same public endpoint and      *)
(* protocol returns an array with no record of that endpoint and protocol, *)
(* whatever the gateway's table held before.                               *)
C9_MapUnmapLeavesNone ==
  \A p \in Slots :
    (call[p].op = "getMappings" /\ call[p].pc = "done" /\ MappedThenUnmapped)
    => /\ call[p].result.t = "fulfilled"
       /\ \A i \in 1..Len(call[p].result.value) :
            ~IsMappingOf(call[p].result.value[i], PublicOf(scenario[1].options))

\* such a getMappings returned the mappings of the other clients, with a
\* neighbour of the unmapped key among them
C9_Witness ==
  \E p \in Slots :
    /\ call[p].op = "getMappings" /\ call[p].pc = "done" /\ MappedThenUnmapped
    /\ PublicOf(scenario[1].options).host = "wan"
    /\ call[p].result.t = "fulfilled"
    /\ \E i \in 1..Len(call[p].result.value) :
         /\ call[p].result.value[i].public.port = Num(81)
         /\ call[p].result.value[i].public.host = ""

-----------------------------------------------------------------------------
IndexRequest(i) ==
  [action |-> "GetGenericPortMappingEntry", args |-> [NewPortMappingIndex |-> i]]

RECURSIVE EnumFrom(_, _, _)
\* the records of an enumeration of the gateway's table that starts at index
\* i and ends at the first request that fails
EnumFrom(table, origin, i) ==
  LET a == GatewayAnswer(IndexRequest(i), table, origin) IN
  IF a.doc.fault.present THEN <<>>
  ELSE <<MappingRecord(a.doc.body.fields)>> \o EnumFrom(table, origin, i + 1)

\* the first request of call p was the one at index 0, and it failed
FailedAtZero(p) ==
  /\ call[p].op = "getMappings" /\ call[p].firstErrorOnZero
  /\ sent[p] # <<>> /\ sent[p][1] = IndexRequest(0)

(* C10: a getMappings whose request at index 0 failed returns the records  *)
(* of an enumeration started at index 1, in index order, and has sent the  *)
(* requests for the indexes 0, 1, ..., N+1 once each, N being the number   *)
(* of records: the restart at index 1 happens once.                        *)
C10_RestartAtOne ==
  \A p \in Slots :
    (FailedAtZero(p) /\ call[p].pc = "done")
    => LET ref == EnumFrom(gwTable, gwOrigin, 1) IN
       /\ call[p].result = Fulfilled(FilterMappings(ref, call[p].options))
       /\ sent[p] = [k \in 1..(Len(ref) + 2) |-> IndexRequest(k - 1)]

\* a gateway that numbers from 1 and holds two mappings was enumerated
C10_Witness ==
  \E p \in Slots :
    /\ FailedAtZero(p) /\ call[p].pc = "done"
    /\ gwOrigin = 1 /\ Len(gwTable) = 2
    /\ call[p].result.t = "fulfilled" /\ Len(call[p].result.value) = 2
    /\ Len(sent[p]) = 4

-----------------------------------------------------------------------------
\* the records of the entry replies call p received, in the order received
RecordsReceived(p) ==
  [k \in 1..Len(call[p].received) |-> MappingRecord(call[p].received[k])]

(* C11: a getMappings that has settled is fulfilled, never rejected, and   *)
(* the array it returns is the filter applied to exactly one record per    *)
(* entry reply the call received, in the order received.                   *)
C11_AlwaysAnArray ==
  \A p \in Slots :
    (call[p].op = "getMappings" /\ call[p].pc = "done")
    => call[p].result =
         Fulfilled(FilterMappings(RecordsReceived(p), call[p].options))

\* an enumeration that received an entry and then ended on a transport error
C11_Witness ==
  \E p \in Slots :
    /\ call[p].op = "getMappings" /\ call[p].pc = "done"
    /\ Len(call[p].received) = 1 /\ Len(sent[p]) = 2
    /\ ~call[p].firstErrorOnZero
    /\ call[p].result = Fulfilled(<<MappingRecord(EntryAt(0))>>)

-----------------------------------------------------------------------------
\* the _findGateway of call p threw e in this step
ResolveFails(p, e) ==
  \/ DiscoveryRejected(p, e)
  \/ call[p].pc = "fetchingDesc" /\ e = FetchError /\ DescriptionFailed(p)
  \/ /\ call[p].pc = "fetchingDesc" /\ DescriptionFetched(p)
     /\ \E d \in DescsAt(call[p].loc) : Resolve(d, call[p].loc) = e
     /\ call'[p] = onThrow([call[p] EXCEPT !.pc = "running"], e, gateway, FALSE)

(* C12: a step in which _findGateway fails, in discovery or in any step of *)
(* the resolution, leaves the cache field as it was, so absent when it was *)
(* absent, and hands its error to the public method, which (getMappings    *)
(* apart) is rejected with it; and a public operation invoked while the    *)
(* field is absent starts a discovery.                                     *)
C12_CachesOnlyOnSuccess ==
  [][ /\ \A p \in Slots : \A e \in DiscoveryErrors \cup ResolutionErrors :
           ResolveFails(p, e) =>
             /\ gateway' = gateway
             /\ call[p].op # "getMappings" =>
                  call'[p].pc = "done" /\ call'[p].result = Rejected(e)
      /\ \A p \in Slots :
           (Invoked(p) /\ gateway = Null) => StartsDiscovery(p) ]_vars

\* a call failed in the resolution, the cache is absent, and the call
\* invoked next is discovering
C12_Witness ==
  /\ gateway = Null
  /\ call["p1"].pc = "done" /\ call["p1"].result = Rejected(NoControlUrlError)
  /\ call["p2"].pc = "discovering" /\ invocations = 2

-----------------------------------------------------------------------------
(* Pure functions of the program, applied to inputs drawn from bounded     *)
(* sets.  The client, the gateway and the discovery stand still.           *)

Standstill == UNCHANGED <<clientVars, gwVars, disc>>

InitEval(f, inputs) ==
  /\ ClientInit
  /\ gwTable = <<>>
  /\ gwOrigin = 0
  /\ scenario = <<>>
  /\ disc = Null
  /\ \E x \in inputs : eval = [f |-> f, input |-> x, output |-> <<>>]

-----------------------------------------------------------------------------
(* normalizePort.                                                          *)

Numbers == {Num(n) : n \in -1..MaxPort} \cup {NumAndHalf(n) : n \in 0..1}

NumericStrings ==
  {NumStr(n) : n \in -1..MaxPort} \cup {NumAndHalfStr(n) : n \in 0..1}

HostPortRecords ==
  {Obj(h, p) : h \in {Undef, Text("192.168.1.10")},
               p \in Numbers \cup NumericStrings \cup {Undef}}

PortInputs == Numbers \cup NumericStrings \cup HostPortRecords

\* normalizePort(input), then normalizePort of what it returned
Normalize ==
  /\ eval.f = "normalizePort"
  /\ Len(eval.output) < MaxApplications
  /\ LET arg == IF eval.output = <<>> THEN eval.input
                ELSE eval.output[Len(eval.output)]
     IN eval' = [eval EXCEPT !.output = Append(@, normalizePort(arg))]
  /\ Standstill

InitNorm == InitEval("normalizePort", PortInputs)

NextNorm == Normalize

SpecNorm == InitNorm /\ [][NextNorm]_vars

\* the port of a normalized endpoint is a number below zero or not whole
BadPort(r) ==
  /\ Prop(r, "port").t = "number"
  /\ Prop(r, "port").v < 0 \/ ~IsInteger(Prop(r, "port"))

(* C13, as stated: for a bare number, a numeric string or a {host, port}   *)
(* record, normalizing twice gives what normalizing once gives, and the    *)
(* port of the result is never negative and never a non-integer.           *)
C13_AsStated ==
  eval.f = "normalizePort" =>
    /\ \A k \in 1..Len(eval.output) : ~BadPort(eval.output[k])
    /\ Len(eval.output) >= 2 => eval.output[2] = eval.output[1]

-----------------------------------------------------------------------------
(* The filters at the end of getMappings.                                  *)

\* the records getMappings can have pushed
FilterRecords ==
  { MappingRecord(Entry("", WNum(80), "TCP", WNum(8000), client, "1", d, WNum(0))) :
      client \in {"192.168.1.100", "192.168.1.7"},
      d \in {<<"nat-upnp">>, <<"My", " ", "App">>} }

MappingLists == UNION {[1..n -> FilterRecords] : n \in 0..MaxMappings}

FilterOptions ==
  { GetOptions(local, host, d) :
      local \in BOOLEAN, host \in {"", "192.168.1.7"},
      d \in {Undef, Chars(<<>>), Chars(<<"App">>), DescRegExp(<<"My">>)} }

FilterInputs ==
  {[mappings |-> ms, options |-> o] : ms \in MappingLists, o \in FilterOptions}

\* the end of getMappings, after the enumeration loop
ApplyFilters ==
  /\ eval.f = "getMappings"
  /\ eval.output = <<>>
  /\ eval' = [eval EXCEPT !.output =
                <<FilterMappings(eval.input.mappings, eval.input.options)>>]
  /\ Standstill

InitFilter == InitEval("getMappings", FilterInputs)

NextFilter == ApplyFilters

SpecFilter == InitFilter /\ [][NextFilter]_vars

\* the address options.local compares with: the caller's, or the detected one
LocalIpOf(options) ==
  IF options.internalHost # "" THEN options.internalHost ELSE LocalIp.s

DescriptionSet(options) ==
  options.description \notin {Undef, Chars(<<>>)}

DescriptionMatches(m, description) ==
  IF description.t = "regexp" THEN IsPrefix(description.prefix, m.description)
  ELSE Includes(m.description, description.s)

\* the one filter the claim names for these options
Kept(m, options) ==
  IF options.local THEN m.private.host = LocalIpOf(options)
  ELSE IF DescriptionSet(options) THEN DescriptionMatches(m, options.description)
  ELSE TRUE

(* C14: getMappings applies at most one filter and keeps the order: with   *)
(* options.local set, the result is exactly the records whose private host *)
(* is the local IP, whether or not options.description is set too; else    *)
(* with options.description set, exactly the records whose description     *)
(* contains the string or matches the pattern; else all records.           *)
C14_OneFilterInOrder ==
  (eval.f = "getMappings" /\ eval.output # <<>>) =>
    eval.output[1] =
      SelectSeq(eval.input.mappings, LAMBDA m : Kept(m, eval.input.options))

\* local and description both set: a record of the local host whose
\* description does not match is kept, one of another host that matches is not
C14_Witness ==
  /\ eval.f = "getMappings" /\ eval.output # <<>>
  /\ eval.input.options = GetOptions(TRUE, "", Chars(<<"App">>))
  /\ Len(eval.input.mappings) = 2
  /\ eval.input.mappings[1].private.host = "192.168.1.7"
  /\ Includes(eval.input.mappings[1].description, <<"App">>)
  /\ eval.input.mappings[2].private.host = LocalIp.s
  /\ ~Includes(eval.input.mappings[2].description, <<"App">>)
  /\ eval.output[1] = <<eval.input.mappings[2]>>

-----------------------------------------------------------------------------
\* the DeletePortMapping arguments of the two requests of PortOptions,
\* written out: remote host or "", external port, upper-cased protocol
ExpectedDelete(options) ==
  IF options.public = Num(80) /\ options.protocol = Text("tcp")
  THEN [NewRemoteHost |-> Text(""), NewExternalPort |-> Num(80),
        NewProtocol |-> "TCP"]
  ELSE [NewRemoteHost |-> Text("wan"), NewExternalPort |-> NumStr(81),
        NewProtocol |-> "TCP"]

\* the reply doc to the request of call p arrived in this step
Replied(p, doc) ==
  /\ call[p].pc = "awaitSoap"
  /\ doc \in AnyDocs(call[p].request)
  /\ Reply(p, doc, gwTable)

(* C15: a call of unmapPort puts one DeletePortMapping on the wire, with   *)
(* NewRemoteHost, NewExternalPort and NewProtocol of the request (protocol *)
(* TCP by default, upper-cased), and nothing else: when the reply is no    *)
(* fault the call returns its Body, when it is a fault or the transport    *)
(* fails the call fails with that error, and in both cases it is over.     *)
C15_SingleDelete ==
  [][ \A p \in Slots : call[p].op = "unmapPort" =>
        /\ Sends(p) =>
              /\ sent[p] = <<>>
              /\ sent'[p] = <<[action |-> "DeletePortMapping",
                               args |-> ExpectedDelete(call[p].options)]>>
        /\ SoapThrows(p) =>
              /\ call'[p].pc = "done" /\ call'[p].result = Rejected(FetchError)
              /\ sent'[p] = sent[p]
        /\ \A doc \in AnyDocs([action |-> "DeletePortMapping"]) :
              Replied(p, doc) =>
                /\ call'[p].pc = "done" /\ sent'[p] = sent[p]
                /\ call'[p].result =
                     IF doc.fault.present
                     THEN Rejected(IF doc.fault.upnp
                                   THEN UPnPError(doc.fault.errorCode,
                                                  doc.fault.errorDescription)
                                   ELSE SoapFaultError)
                     ELSE Fulfilled(doc.body) ]_vars

\* an unmapPort that failed with the gateway's UPnP error after one request
C15_Witness ==
  \E p \in Slots :
    /\ call[p].op = "unmapPort" /\ call[p].pc = "done"
    /\ Len(sent[p]) = 1 /\ sent[p][1].action = "DeletePortMapping"
    /\ call[p].result.t = "rejected" /\ call[p].result.error.kind = "upnp"

-----------------------------------------------------------------------------
(* C16, as stated: getExternalIp sends one GetExternalIPAddress request    *)
(* without arguments, and when the reply is not a fault it returns the     *)
(* text of NewExternalIPAddress, or null when the reply has no such        *)
(* element, and never an error.                                            *)
C16_AsStated ==
  [][ \A p \in Slots : call[p].op = "getExternalIp" =>
        /\ Sends(p) =>
              sent'[p] = <<[action |-> "GetExternalIPAddress", args |-> <<>>]>>
        /\ \A doc \in AnyDocs([action |-> "GetExternalIPAddress"]) :
              (Replied(p, doc) /\ ~doc.fault.present) =>
                /\ call'[p].pc = "done"
                /\ call'[p].result =
                     IF /\ doc.body # Undef
                        /\ "NewExternalIPAddress" \in DOMAIN doc.body.fields
                     THEN Fulfilled(doc.body.fields.NewExternalIPAddress)
                     ELSE Fulfilled(Null) ]_vars

-----------------------------------------------------------------------------
(* C17, as stated: one call of a public method starts at most one SSDP     *)
(* discovery, whether the discovery succeeds or fails, the 718 recovery of *)
(* mapPort and the index-origin retry of getMappings included.             *)
C17_AsStated == \A p \in Slots : call[p].nDisc =< 1

-----------------------------------------------------------------------------
(* searchService on a parsed device description.  An element is its tag,   *)
(* its child elements in document order and its own text.                  *)

El(tag, kids, text) == [tag |-> tag, kids |-> kids, text |-> text]

RECURSIVE Descendants(_)
RECURSIVE DescendantsFrom(_, _)
\* the elements below el, in document order
Descendants(el) == DescendantsFrom(el.kids, 1)

\* the elements kids[i], kids[i+1], ... and all below them, in document order
DescendantsFrom(kids, i) ==
  IF i > Len(kids) THEN <<>>
  ELSE <<kids[i]>> \o Descendants(kids[i]) \o DescendantsFrom(kids, i + 1)

\* Element.getElementsByTagName: every descendant with this tag
getElementsByTagName(el, tag) == SelectSeq(Descendants(el), LAMBDA e : e.tag = tag)

\* the allow-list _findGateway passes to searchService
AllowList ==
  {"urn:schemas-upnp-org:service:WANIPConnection:1",
   "urn:schemas-upnp-org:service:WANPPPConnection:1"}

\* serviceTypeEl && types.includes(serviceTypeEl.textContent)
TypeMatches(service, types) ==
  LET serviceTypeEl == getElementsByTagName(service, "serviceType") IN
  serviceTypeEl # <<>> /\ serviceTypeEl[1].text \in types

RECURSIVE searchService(_, _)
RECURSIVE searchDevices(_, _, _)
searchService(device, types) ==
  LET serviceLists == getElementsByTagName(device, "serviceList")
      services == IF serviceLists = <<>> THEN <<>>
                  ELSE getElementsByTagName(serviceLists[1], "service")
      hits == SelectSeq(services, LAMBDA e : TypeMatches(e, types))
      deviceLists == getElementsByTagName(device, "deviceList")
      devices == IF deviceLists = <<>> THEN <<>>
                 ELSE getElementsByTagName(deviceLists[1], "device")
  IN IF hits # <<>> THEN hits[1] ELSE searchDevices(devices, types, 1)

\* the loop of searchService over devices, from devices[i] on
searchDevices(devices, types, i) ==
  IF i > Len(devices) THEN Null
  ELSE LET found == searchService(devices[i], types) IN
       IF found # Null THEN found ELSE searchDevices(devices, types, i + 1)

\* the service types a gateway lists: one of the allow-list, which
\* types.includes treats alike, and one that is not on it
ServiceTypes ==
  {"urn:schemas-upnp-org:service:WANIPConnection:1",
   "urn:schemas-upnp-org:service:Layer3Forwarding:1"}

\* a service element; its controlURL tells where in the description it is
ServiceAt(path, k, type) ==
  El("service", <<El("serviceType", <<>>, type),
                  El("controlURL", <<>>, [device |-> path, service |-> k])>>, "")

ServiceListsAt(path) ==
  UNION { { El("serviceList", [k \in 1..n |-> ServiceAt(path, k, types[k])], "") :
              types \in [1..n -> ServiceTypes] } : n \in 1..MaxServices }

RECURSIVE Rows(_, _)
\* the sequences of n elements, the k-th drawn from sets[k]
Rows(sets, n) ==
  IF n = 0 THEN {<<>>}
  ELSE {Append(r, d) : r \in Rows(sets, n - 1), d \in sets[n]}

RECURSIVE DevicesAt(_, _)
\* the device elements that can stand at path, with at most depth levels of
\* devices below them: serviceList and deviceList are each there or not,
\* and come in either order
DevicesAt(path, depth) ==
  LET lists == ServiceListsAt(path)
      below == [k \in 1..MaxChildren |->
                  IF depth = 0 THEN {} ELSE DevicesAt(path \o <<k>>, depth - 1)]
      rows == UNION {Rows(below, n) : n \in 1..MaxChildren}
      deviceLists == IF depth = 0 THEN {} ELSE {El("deviceList", r, "") : r \in rows}
  IN {El("device", <<>>, "")}
     \cup {El("device", <<sl>>, "") : sl \in lists}
     \cup {El("device", <<dl>>, "") : dl \in deviceLists}
     \cup {El("device", <<sl, dl>>, "") : sl \in lists, dl \in deviceLists}
     \cup {El("device", <<dl, sl>>, "") : sl \in lists, dl \in deviceLists}

\* searchService(device, [...]) as _findGateway calls it
Search ==
  /\ eval.f = "searchService"
  /\ eval.output = <<>>
  /\ eval' = [eval EXCEPT !.output = <<searchService(eval.input, AllowList)>>]
  /\ Standstill

\* the argument is root.getElementsByTagName("device")[0] of a description
InitSearch == InitEval("searchService", DevicesAt(<<>>, MaxDepth))

NextSearch == Search

SpecSearch == InitSearch /\ [][NextSearch]_vars

(* C18, as stated: the search comes back empty only when no device of the  *)
(* tree lists an allow-listed service; when some device, at any depth,     *)
(* lists one in its own serviceList, the search returns a service,         *)
(* whatever the arrangement of serviceList and deviceList elements.        *)
C18_AsStated ==
  (eval.f = "searchService" /\ eval.output # <<>>) =>
    LET listed == SelectSeq(getElementsByTagName(eval.input, "service"),
                            LAMBDA e : TypeMatches(e, AllowList))
    IN eval.output[1] = Null <=> listed = <<>>

(* C19, as stated: the search returns the first allow-listed service in    *)
(* this order: the device's own serviceList, then its child devices under  *)
(* deviceList depth-first in document order; so a match in a device's own  *)
(* serviceList wins over a match in any descendant.                        *)
C19_AsStated ==
  LET Children(el, tag) == SelectSeq(el.kids, LAMBDA e : e.tag = tag)
      RECURSIVE OwnThenChildren(_)
      RECURSIVE ChildrenFrom(_, _)
      OwnThenChildren(device) ==
        LET own == Children(device, "serviceList")
            deviceLists == Children(device, "deviceList")
        IN (IF own = <<>> THEN <<>> ELSE Children(own[1], "service"))
           \o (IF deviceLists = <<>> THEN <<>>
               ELSE ChildrenFrom(Children(deviceLists[1], "device"), 1))
      ChildrenFrom(devices, i) ==
        IF i > Len(devices) THEN <<>>
        ELSE OwnThenChildren(devices[i]) \o ChildrenFrom(devices, i + 1)
      listed == SelectSeq(OwnThenChildren(eval.input),
                          LAMBDA e : TypeMatches(e, AllowList))
  IN (eval.f = "searchService" /\ eval.output # <<>>) =>
       eval.output[1] = (IF listed = <<>> THEN Null ELSE listed[1])

-----------------------------------------------------------------------------
(* soapRequest on the reply of the gateway.  The elements of a reply carry *)
(* their namespace and local name next to the tag.                         *)

NsEl(ns, prefix, local, kids, text) ==
  [tag |-> prefix \o local, ns |-> ns, local |-> local, kids |-> kids,
   text |-> text]

\* Document.getElementsByTagNameNS
getElementsByTagNameNS(el, ns, local) ==
  SelectSeq(Descendants(el), LAMBDA e : e.ns = ns /\ e.local = local)

\* extractTextFromTag on elements whose text is a sequence of tokens
extractTextFromTag(parentEl, tag) ==
  LET els == getElementsByTagName(parentEl, tag) IN
  IF els = <<>> THEN <<>> ELSE els[1].text

SoapNs == "http://schemas.xmlsoap.org/soap/envelope/"

\* the namespace of SOAP 1.2, whose Fault is not the one soapRequest looks for
Soap12Ns == "http://www.w3.org/2003/05/soap-envelope"

ControlNs == "urn:schemas-upnp-org:control-1-0"

UPnPErrorEl(kids) == NsEl(ControlNs, "", "UPnPError", kids, <<>>)

\* the detail children a Fault can have
FaultDetails ==
  { <<>>,
    <<NsEl("", "", "detail", <<>>, <<>>)>>,
    <<NsEl("", "", "detail", <<UPnPErrorEl(<<>>)>>, <<>>)>> }
  \cup { <<NsEl("", "", "detail",
               <<UPnPErrorEl(<<NsEl(ControlNs, "", "errorCode", <<>>, f.errorCode),
                               NsEl(ControlNs, "", "errorDescription", <<>>,
                                    f.errorDescription)>>)>>, <<>>)>> :
          f \in {ConflictFault, NoSuchEntryFault} }

Faults ==
  {NsEl(ns, "s:", "Fault", d, <<>>) : ns \in {SoapNs, Soap12Ns}, d \in FaultDetails}

ResponseEl(action) ==
  NsEl("urn:schemas-upnp-org:service:WANIPConnection:1", "u:",
       action \o "Response", <<>>, <<>>)

\* parseXml(text) of the replies of the model: an Envelope with or without
\* a Body, which is empty or holds the response element or a Fault
ReplyDocs(action) ==
  LET contents == {<<>>, <<ResponseEl(action)>>} \cup {<<f>> : f \in Faults}
      envelopes == {<<>>} \cup {<<NsEl(SoapNs, "s:", "Body", c, <<>>)>> : c \in contents}
  IN { NsEl("", "", "#document", <<NsEl(SoapNs, "s:", "Envelope", e, <<>>)>>, <<>>) :
         e \in envelopes }

\* the actions the public methods request
SoapActions ==
  {"AddPortMapping", "DeletePortMapping", "GetExternalIPAddress",
   "GetGenericPortMappingEntry"}

\* what fetch resolves with: the HTTP status and the parsed text
Responses ==
  UNION { { [action |-> a, status |-> st, doc |-> d] :
              st \in {200, 500}, d \in ReplyDocs(a) } : a \in SoapActions }

\* a soapRequest that looks for a Fault only when the status is not 200
soapRequestByStatus(res) ==
  LET fault == getElementsByTagNameNS(res.doc, SoapNs, "Fault")
      body == getElementsByTagNameNS(res.doc, SoapNs, "Body")
  IN IF fault # <<>> /\ res.status # 200
     THEN IF getElementsByTagName(fault[1], "UPnPError") # <<>>
          THEN UPnPError(<<>>, <<>>)
          ELSE SoapFaultError
     ELSE IF body = <<>> THEN Undef ELSE body[1]

\* soapRequest after fetch resolved with res: the error thrown, or the
\* element returned (undefined when there is none)
soapRequest(res) ==
  LET fault == getElementsByTagNameNS(res.doc, SoapNs, "Fault")
      body == getElementsByTagNameNS(res.doc, SoapNs, "Body")
  IN IF fault # <<>>
     THEN LET upnpError == getElementsByTagName(fault[1], "UPnPError") IN
          IF upnpError # <<>>
          THEN UPnPError(extractTextFromTag(upnpError[1], "errorCode"),
                         extractTextFromTag(upnpError[1], "errorDescription"))
          ELSE SoapFaultError
     ELSE IF body = <<>> THEN Undef ELSE body[1]

Classify ==
  /\ eval.f = "soapRequest"
  /\ eval.output = <<>>
  /\ eval' = [eval EXCEPT !.output = <<soapRequest(eval.input)>>]
  /\ Standstill

InitSoap == InitEval("soapRequest", Responses)

NextSoap == Classify

SpecSoap == InitSoap /\ [][NextSoap]_vars

-----------------------------------------------------------------------------
\* the handles a successful discovery can produce
Handles ==
  {h \in {Resolve(d, l) : d \in UNION {DescsAt(k) : k \in Locations}, l \in Locations} :
     h.t = "handle"}

(* C21, as stated: of the calls that start while no handle is cached, each *)
(* starts one discovery and no more, each either fails with the error of   *)
(* its discovery or sends its request with the serviceType and controlUrl  *)
(* of one discovery, and once every call has finished the cache is absent  *)
(* or holds the handle of a successful discovery.                          *)
C21_AsStated ==
  /\ \A p \in Slots : call[p].cold =>
        /\ call[p].nDisc =< 1
        /\ call[p].pc = "done" =>
              \/ sent[p] # <<>>
              \/ /\ call[p].result.t = "rejected"
                 /\ call[p].result.error \in DiscoveryErrors \cup ResolutionErrors
        /\ call[p].request # Null =>
              \E h \in Handles : UsesHandle(call[p].request, h)
  /\ (\A p \in Slots : call[p].pc \in {"idle", "done"}) =>
        gateway = Null \/ gateway \in Handles

-----------------------------------------------------------------------------
(* C22, as stated: a discovery that was in flight when clearCache was      *)
(* called does not write its handle into the cache: after a clearCache the *)
(* cache is absent until a discovery started after it has succeeded.       *)
C22_AsStated ==
  [][ \A p \in stale :
        ~(call[p].pc = "fetchingDesc" /\ call'[p].pc = "resolved"
            /\ gateway' = call'[p].ret) ]_vars

-----------------------------------------------------------------------------
(* C23: a mapPort sends at most two AddPortMapping and at most one         *)
(* DeletePortMapping.  When the DeletePortMapping of the 718 recovery      *)
(* fails, the call ends there, rejected with that error and without a      *)
(* second AddPortMapping; when the second AddPortMapping is answered or    *)
(* fails, the call ends there, rejected with that second error if it is    *)
(* one, 718 included, and no request follows.                              *)
C23_BoundedRecovery ==
  [][ LET Count(requests, action) ==
            Cardinality({k \in 1..Len(requests) : requests[k].action = action})
          Thrown(doc) ==
            IF doc.fault.upnp
            THEN UPnPError(doc.fault.errorCode, doc.fault.errorDescription)
            ELSE SoapFaultError
      IN \A p \in Slots : call[p].op = "mapPort" =>
           /\ Count(sent'[p], "AddPortMapping") =< 2
           /\ Count(sent'[p], "DeletePortMapping") =< 1
           /\ \A doc \in AnyDocs([action |-> "DeletePortMapping"]) :
                 (call[p].phase = "unmap" /\ Replied(p, doc) /\ doc.fault.present) =>
                   /\ call'[p].pc = "done" /\ sent'[p] = sent[p]
                   /\ call'[p].result = Rejected(Thrown(doc))
           /\ \A doc \in AnyDocs([action |-> "AddPortMapping"]) :
                 (call[p].phase = "add2" /\ Replied(p, doc)) =>
                   /\ call'[p].pc = "done" /\ sent'[p] = sent[p]
                   /\ call'[p].result = IF doc.fault.present
                                        THEN Rejected(Thrown(doc))
                                        ELSE Fulfilled(doc.body)
           /\ (call[p].phase \in {"unmap", "add2"} /\ SoapThrows(p)) =>
                 /\ call'[p].pc = "done" /\ sent'[p] = sent[p]
                 /\ call'[p].result = Rejected(FetchError) ]_vars

\* a mapPort whose recovery ended at a DeletePortMapping the gateway refused
C23_Witness ==
  \E p \in Slots :
    /\ call[p].op = "mapPort" /\ call[p].pc = "done" /\ call[p].phase = "unmap"
    /\ Len(sent[p]) = 2 /\ sent[p][2].action = "DeletePortMapping"
    /\ call[p].result.t = "rejected"
    /\ HasErrorCode(call[p].result.error, <<"7", "1", "4">>)

-----------------------------------------------------------------------------
(* C24, as stated: the requests of a getMappings carry strictly increasing *)
(* indexes that start at 0, and the call stops at the first request that   *)
(* fails or is answered with something other than an entry, except that a  *)
(* failure at index 0 is followed by the request at index 1.               *)
C24_AsStated ==
  [][ \A p \in Slots : call'[p].op = "getMappings" =>
        /\ sent'[p] # <<>> => sent'[p][1] = IndexRequest(0)
        /\ \A k \in 2..Len(sent'[p]) :
              /\ sent'[p][k].action = "GetGenericPortMappingEntry"
              /\ sent'[p][k].args.NewPortMappingIndex
                   > sent'[p][k - 1].args.NewPortMappingIndex
        /\ \A doc \in AnyDocs(IndexRequest(MaxEntries + 1)) \cup AnyDocs(IndexRequest(0)) :
              (Replied(p, doc) /\ ~IsEntryReply(call[p].request, doc)) =>
                IF call[p].index = 0 /\ ~call[p].firstErrorOnZero
                   /\ (doc.fault.present \/ doc.body = Undef)
                THEN call'[p].pc # "done" /\ call'[p].index = 1
                ELSE call'[p].pc = "done" /\ sent'[p] = sent[p] ]_vars

=============================================================================
